---- MODULE Spec2Model ----
(***************************************************************************)
(* Model of the SH1106 OLED display driver (lib/index.js, lib/constants.js) *)
(* Display buffer, dirty byte tracking, drawing methods and the methods    *)
(* that send the buffer to the display device RAM.                         *)
(***************************************************************************)
EXTENDS Integers, Sequences, FiniteSets, TLC

(* ------------------------------------------------------------------ *)
(* Bounds of the model                                                *)
(* ------------------------------------------------------------------ *)
\* displayColumns of the modelled configuration
DisplayColumns == 3
\* displayRows / 8 of the modelled configuration
DisplayPages == 2
\* number of synchronous method calls (drawing, clearBuffer, setCursor, setClipped)
\* in one behaviour
MaxCalls == 2
\* number of async method calls (init, sendBuffer, updateDisplay) in one behaviour
MaxAsync == 2

(* ------------------------------------------------------------------ *)
(* lib/constants.js                                                   *)
(* ------------------------------------------------------------------ *)
SET_COL_ADDR_LB == 0
SET_COL_ADDR_HB == 16
SET_CONTRAST == 129
SET_SEGMENT_REMAP == 160
SET_ENTIRE_DISPLAY_ON_OFF == 164
SET_DISPLAY_REVERSE == 166
SET_MULTIPLEX_RATIO == 168
SET_DCDC_ON_OFF == 173
DISPLAY_ON_OFF == 174
SET_PAGE_ADDRESS == 176
SET_DISPLAY_OFFSET == 211
SET_DISPLAY_CLOCK_RATIO == 213
SET_CHARGE_PERIOD == 217
SET_COMMON_PAD_CONFIG == 218
SET_VCOM_LEVEL == 219
\* "RAM has 132 columns"
RamColumns == 132
\* page address register takes 0x00 - 0x07
RamPages == 8

(* ------------------------------------------------------------------ *)
(* JavaScript integer and bit operators                               *)
(* ------------------------------------------------------------------ *)
Min2(a, b) == IF a < b THEN a ELSE b
Max2(a, b) == IF a > b THEN a ELSE b
Abs(a) == IF a < 0 THEN -a ELSE a

RECURSIVE Pow2(_)
Pow2(n) == IF n <= 0 THEN 1 ELSE 2 * Pow2(n - 1)

\* a & b for a, b >= 0
RECURSIVE AndNat(_, _)
AndNat(a, b) ==
  IF a = 0 \/ b = 0 THEN 0
  ELSE (IF a % 2 = 1 /\ b % 2 = 1 THEN 1 ELSE 0) + 2 * AndNat(a \div 2, b \div 2)

\* ~a (two's complement)
BitNot(a) == -a - 1

\* a & b on two's complement integers
BitAnd(a, b) ==
  IF a >= 0 /\ b >= 0 THEN AndNat(a, b)
  ELSE IF a >= 0 THEN a - AndNat(a, BitNot(b))
  ELSE IF b >= 0 THEN b - AndNat(b, BitNot(a))
  ELSE BitNot(BitNot(a) + BitNot(b) - AndNat(BitNot(a), BitNot(b)))

\* a | b on two's complement integers
BitOr(a, b) == a + b - BitAnd(a, b)

\* what a Buffer / Uint8Array element or Buffer.from(array) element keeps of a number
ToUint8(a) == a % 256

(* ------------------------------------------------------------------ *)
(* Values passed to the methods                                       *)
(* ------------------------------------------------------------------ *)
\* a coordinate argument, or null as drawImage passes to clipped()
Coord(v) == [isNull |-> FALSE, v |-> v]
Null == [isNull |-> TRUE, v |-> 0]

\* a color argument: a number or a string
Num(n) == [isNum |-> TRUE, num |-> n, str |-> ""]
Str(s) == [isNum |-> FALSE, num |-> 0, str |-> s]
Colors == {Num(0), Num(1), Str("BLACK"), Str("WHITE")}

\* pixel[2] === 'BLACK' || pixel[2] === 0
IsBlack(c) == (~c.isNum /\ c.str = "BLACK") \/ (c.isNum /\ c.num = 0)
\* pixel[2] === 'WHITE' || pixel[2] > 0
IsWhite(c) == (~c.isNum /\ c.str = "WHITE") \/ (c.isNum /\ c.num > 0)

Pixel(x, y, c) == [x |-> x, y |-> y, color |-> c]

VARIABLES
  Config,      \* this.Config
  buffer,      \* this.buffer, offset -> byte
  dirtyBytes,  \* this.dirtyBytes, page -> (column -> byte)
  cursorx,     \* this.cursorx
  cursory,     \* this.cursory
  task,        \* the async method in progress and its local variables
  calls,       \* transport calls made by the async method in progress / last run
  device,      \* the display device: address registers and RAM
  lastCall,    \* the last method called and its arguments
  ncalls,      \* number of synchronous method calls made
  nasync,      \* number of async method calls made
  interleaved  \* a method has been called while an async method was suspended

vars ==
  <<Config, buffer, dirtyBytes, cursorx, cursory, task, calls, device, lastCall, ncalls, nasync,
    interleaved>>

(* ------------------------------------------------------------------ *)
(* Buffer (Uint8Array) access                                         *)
(* ------------------------------------------------------------------ *)
BufferLength(cfg) == cfg.displayColumns * cfg.displayRows

\* Buffer.alloc(n) / buffer.fill(0x00)
ZeroBuffer(cfg) == [o \in 0 .. BufferLength(cfg) - 1 |-> 0]

\* buffer[offset] is undefined outside 0 .. length-1
Defined(buf, offset) == offset \in DOMAIN buf

\* buffer[offset] = value; an index outside the array is ignored
BufferWrite(buf, offset, value) ==
  IF Defined(buf, offset) THEN [buf EXCEPT ![offset] = ToUint8(value)] ELSE buf

\* buffer.slice(start, end): negative indexes count from the end
SliceIndex(len, i) == IF i < 0 THEN Max2(len + i, 0) ELSE Min2(i, len)
BufferSlice(buf, start, end) ==
  LET len == Cardinality(DOMAIN buf)
      s == SliceIndex(len, start)
      e == SliceIndex(len, end)
  IN  IF s < e THEN [i \in 1 .. (e - s) |-> buf[s + i - 1]] ELSE <<>>

\* this.dirtyBytes[page] = this.dirtyBytes[page] || {}; this.dirtyBytes[page][column] = byte
DirtyPut(dirty, page, column, byte) ==
  IF page \in DOMAIN dirty
  THEN [dirty EXCEPT ![page] = (column :> byte) @@ @]
  ELSE (page :> (column :> byte)) @@ dirty

NoDirty == <<>>

(* ------------------------------------------------------------------ *)
(* clipped / setClipped                                               *)
(* ------------------------------------------------------------------ *)
\* clip methods a caller installs with setClipped; "none" is no method installed
\*   never: (x, y) => false
\*   cell:  (x, y) => x === 1 && y === 1
ClippedMethods == {"never", "cell"}

clippedMethod(m, x, y) ==
  CASE m = "never" -> FALSE
    [] m = "cell" -> (~x.isNull /\ x.v = 1) /\ (~y.isNull /\ y.v = 1)

clipped(x, y) ==
  IF Config.clippedMethod # "none" THEN clippedMethod(Config.clippedMethod, x, y)
  ELSE IF ~x.isNull /\ (x.v < 0 \/ x.v >= Config.displayColumns) THEN TRUE
  ELSE IF ~y.isNull /\ (y.v < 0 \/ y.v >= Config.displayRows) THEN TRUE
  ELSE FALSE

(* ------------------------------------------------------------------ *)
(* drawPixels                                                         *)
(* ------------------------------------------------------------------ *)
\* the state the drawing methods work on
Canvas(buf, dirty) == [buffer |-> buf, dirtyBytes |-> dirty]

\* drawPixel without the "!==" test: the dirty entry is recorded at every write
drawPixel_AlwaysDirty(d, pixel) ==
  IF clipped(Coord(pixel.x), Coord(pixel.y)) THEN d
  ELSE
    LET bufferPage == pixel.y \div 8
        pixelByte == Pow2(pixel.y - 8 * bufferPage)
        bufferOffset == pixel.x + Config.displayColumns * bufferPage
        read == IF Defined(d.buffer, bufferOffset) THEN d.buffer[bufferOffset] ELSE 0
        off == IF IsBlack(pixel.color) THEN BitAnd(read, BitNot(pixelByte)) ELSE read
        bufferByte == IF IsWhite(pixel.color) THEN BitOr(off, pixelByte) ELSE off
    IN  Canvas(BufferWrite(d.buffer, bufferOffset, bufferByte),
               DirtyPut(d.dirtyBytes, bufferPage, pixel.x, bufferByte))

\* the forEach callback of drawPixels
drawPixel(d, pixel) ==
  IF clipped(Coord(pixel.x), Coord(pixel.y)) THEN d
  ELSE
    LET bufferPage == pixel.y \div 8
        pixelByte == Pow2(pixel.y - 8 * bufferPage)
        bufferOffset == pixel.x + Config.displayColumns * bufferPage
        def == Defined(d.buffer, bufferOffset)
        \* undefined converts to 0 in &= and |=
        read == IF def THEN d.buffer[bufferOffset] ELSE 0
        black == IsBlack(pixel.color)
        white == IsWhite(pixel.color)
        off == IF black THEN BitAnd(read, BitNot(pixelByte)) ELSE read
        bufferByte == IF white THEN BitOr(off, pixelByte) ELSE off
        \* this.buffer[bufferOffset] !== bufferByte
        changed == IF def THEN d.buffer[bufferOffset] # bufferByte ELSE (black \/ white)
    IN  IF changed
        THEN Canvas(BufferWrite(d.buffer, bufferOffset, bufferByte),
                    DirtyPut(d.dirtyBytes, bufferPage, pixel.x, bufferByte))
        ELSE d

RECURSIVE drawPixels(_, _)
drawPixels(d, pixels) ==
  IF pixels = <<>> THEN d
  ELSE LET next == drawPixel(d, Head(pixels))
       IN  \* the test has TLC evaluate `next` before the callback runs again
           IF DOMAIN next.buffer = DOMAIN d.buffer
           THEN drawPixels(next, Tail(pixels))
           ELSE next

(* ------------------------------------------------------------------ *)
(* drawLine (Bresenham)                                               *)
(* ------------------------------------------------------------------ *)
\* iterations after which the while (true) loop is given up as not terminating
LineFuel(x0, y0, x1, y1) == Abs(x1 - x0) + Abs(y1 - y0) + 2

\* The while (true) loop.  err holds twice the value of the source's err, which
\* starts at (dx > dy ? dx : -dy) / 2 and may be a half; every comparison and
\* update is doubled with it.
RECURSIVE lineLoop(_, _, _, _, _, _, _, _, _, _, _, _)
lineLoop(x0, y0, x1, y1, dx, sx, dy, sy, err, color, linePixels, fuel) ==
  LET pushed == Append(linePixels, Pixel(x0, y0, color))
  IN  IF x0 = x1 /\ y0 = y1 THEN [linePixels |-> pushed, returns |-> TRUE]
      ELSE IF fuel = 0 THEN [linePixels |-> pushed, returns |-> FALSE]
      ELSE
        LET e2 == err
            stepx == e2 > -(2 * dx)
            stepy == e2 < 2 * dy
            err1 == IF stepx THEN err - 2 * dy ELSE err
            nx == IF stepx THEN x0 + sx ELSE x0
            err2 == IF stepy THEN err1 + 2 * dx ELSE err1
            ny == IF stepy THEN y0 + sy ELSE y0
        IN  lineLoop(nx, ny, x1, y1, dx, sx, dy, sy, err2, color, pushed, fuel - 1)

\* linePixelsOf with the sign of the starting error lost: (dx > dy ? dx : dy) / 2
linePixelsOf_ErrSign(x0, y0, x1, y1, color) ==
  LET dx == Abs(x1 - x0)
      sx == IF x0 < x1 THEN 1 ELSE -1
      dy == Abs(y1 - y0)
      sy == IF y0 < y1 THEN 1 ELSE -1
      err == IF dx > dy THEN dx ELSE dy
  IN  lineLoop(x0, y0, x1, y1, dx, sx, dy, sy, err, color, <<>>, LineFuel(x0, y0, x1, y1))

\* the pixels drawLine passes to drawPixels
linePixelsOf(x0, y0, x1, y1, color) ==
  LET dx == Abs(x1 - x0)
      sx == IF x0 < x1 THEN 1 ELSE -1
      dy == Abs(y1 - y0)
      sy == IF y0 < y1 THEN 1 ELSE -1
      err == IF dx > dy THEN dx ELSE -dy
  IN  lineLoop(x0, y0, x1, y1, dx, sx, dy, sy, err, color, <<>>, LineFuel(x0, y0, x1, y1))

\* drawPixels is called only when the loop reaches the end point
drawLine(d, x0, y0, x1, y1, color) ==
  LET run == linePixelsOf(x0, y0, x1, y1, color)
  IN  IF run.returns THEN drawPixels(d, run.linePixels) ELSE d

(* ------------------------------------------------------------------ *)
(* drawFillRect                                                       *)
(* ------------------------------------------------------------------ *)
\* for (let i = x; i < x + w; i += 1) drawLine(i, y, i, y + h - 1, color)
RECURSIVE fillRectLoop(_, _, _, _, _, _, _)
fillRectLoop(d, i, x, y, w, h, color) ==
  IF i < x + w
  THEN fillRectLoop(drawLine(d, i, y, i, y + h - 1, color), i + 1, x, y, w, h, color)
  ELSE d

drawFillRect(d, x, y, w, h, color) == fillRectLoop(d, x, x, y, w, h, color)

(* ------------------------------------------------------------------ *)
(* drawImage                                                          *)
(* ------------------------------------------------------------------ *)
\* image = {width, height, channels, data}; data[i] of the source is data[i + 1] here
Image(w, h, ch, data) == [width |-> w, height |-> h, channels |-> ch, data |-> data]

\* dxxByte is null, undefined (read outside the buffer) or a number
ByteNull == [kind |-> "null", v |-> 0]
ByteOf(buf, offset) ==
  IF Defined(buf, offset) THEN [kind |-> "number", v |-> buf[offset]]
  ELSE [kind |-> "undefined", v |-> 0]
ByteNum(v) == [kind |-> "number", v |-> v]

\* dxxByte !== null && dxxByte !== this.buffer[bufferOffset]
ByteDiffers(b, buf, offset) ==
  /\ b.kind # "null"
  /\ IF Defined(buf, offset) THEN (b.kind # "number" \/ b.v # buf[offset])
     ELSE b.kind # "undefined"

\* imageSave that stores the byte and records no dirty entry
imageSave_NoDirty(d, dxxByte, bufferOffset, page, dxx) ==
  IF ByteDiffers(dxxByte, d.buffer, bufferOffset)
  THEN Canvas(IF dxxByte.kind = "number"
                THEN BufferWrite(d.buffer, bufferOffset, dxxByte.v)
                ELSE BufferWrite(d.buffer, bufferOffset, 0),
              d.dirtyBytes)
  ELSE d

\* "if we have a byte and it differs from buffer then save"
imageSave(d, dxxByte, bufferOffset, page, dxx) ==
  IF ByteDiffers(dxxByte, d.buffer, bufferOffset)
  THEN Canvas(IF dxxByte.kind = "number"
                THEN BufferWrite(d.buffer, bufferOffset, dxxByte.v)
                ELSE BufferWrite(d.buffer, bufferOffset, 0),
              DirtyPut(d.dirtyBytes, page, dxx, dxxByte.v))
  ELSE d

\* Truthy that reads the first channel whatever k is
Truthy_FirstByte(image, imageOffset, k) == image.data[imageOffset + 1] # 0

\* image.data[imageOffset + k] as a truth value
Truthy(image, imageOffset, k) == image.data[imageOffset + k + 1] # 0

\* the inner loop through rows; st = [d, dxxByte, bufferOffset, page]
RECURSIVE imageRows(_, _, _, _, _, _)
imageRows(st, dy, image, x, dxx, y) ==
  IF y >= image.height THEN st
  ELSE
    LET dyy == dy + y
    IN  IF clipped(Null, Coord(dyy)) THEN imageRows(st, dy, image, x, dxx, y + 1)
        ELSE
          LET dyyPage == dyy \div 8
              newPage == dyyPage > st.page
              saved == IF newPage
                       THEN imageSave(st.d, st.dxxByte, st.bufferOffset, st.page, dxx)
                       ELSE st.d
              page == IF newPage THEN dyyPage ELSE st.page
              bufferOffset == IF newPage THEN page * Config.displayColumns + dxx
                              ELSE st.bufferOffset
              dxxByte == IF newPage THEN ByteOf(saved.buffer, bufferOffset) ELSE st.dxxByte
              imageOffset == image.width * image.channels * y + image.channels * x
              transparent == (image.channels = 2 \/ image.channels = 4)
                             /\ ~Truthy(image, imageOffset, image.channels - 1)
              pixelByte == Pow2(dyy - 8 * dyyPage)
              color == IF image.channels < 3 THEN Truthy(image, imageOffset, 0)
                       ELSE Truthy(image, imageOffset, 0) \/ Truthy(image, imageOffset, 1)
                            \/ Truthy(image, imageOffset, 2)
              applied == IF transparent THEN dxxByte
                         ELSE IF color THEN ByteNum(BitOr(dxxByte.v, pixelByte))
                         ELSE ByteNum(BitAnd(dxxByte.v, BitNot(pixelByte)))
          IN  imageRows([d |-> saved, dxxByte |-> applied, bufferOffset |-> bufferOffset,
                         page |-> page], dy, image, x, dxx, y + 1)

\* the outer loop through columns; bufferOffset is kept from one column to the next
RECURSIVE imageColumns(_, _, _, _, _, _)
imageColumns(d, bufferOffset, dx, dy, image, x) ==
  IF x >= image.width THEN d
  ELSE
    LET dxx == dx + x
    IN  IF clipped(Coord(dxx), Null) THEN imageColumns(d, bufferOffset, dx, dy, image, x + 1)
        ELSE
          LET st == imageRows([d |-> d, dxxByte |-> ByteNull, bufferOffset |-> bufferOffset,
                               page |-> -1], dy, image, x, dxx, 0)
              saved == imageSave(st.d, st.dxxByte, st.bufferOffset, st.page, dxx)
          IN  imageColumns(saved, st.bufferOffset, dx, dy, image, x + 1)

drawImage(d, dx, dy, image) == imageColumns(d, 0, dx, dy, image, 0)

(* ------------------------------------------------------------------ *)
(* fontToImageMap                                                     *)
(* ------------------------------------------------------------------ *)
\* font = {width, height, lookup, fontData}; fontData[i] of the source is fontData[i + 1]
Font(w, h, lookup, fontData) ==
  [width |-> w, height |-> h, lookup |-> lookup, fontData |-> fontData]

\* Math.ceil(font.height / 8)
colPagesOf(font) == (font.height + 7) \div 8
padBitsOf(font) == (colPagesOf(font) * 8) % font.height

\* if (!p && b >= 8 - padBits) { continue; }
fontBitSkipped(font, p, b) == p = 0 /\ b >= 8 - padBitsOf(font)

\* the (page, bit) pairs the two outer loops get past the continue with, in loop order
fontRows(font) ==
  SelectSeq([k \in 1 .. colPagesOf(font) * 8 |-> [p |-> (k - 1) \div 8, b |-> (k - 1) % 8]],
            LAMBDA r : ~fontBitSkipped(font, r.p, r.b))

\* cdata[c + p * font.width] & bitMask ? 1 : 0 for character li
fontPixelState(font, li, p, b, c) ==
  LET charBytes == colPagesOf(font) * font.width
      byte == font.fontData[li * charBytes + c + p * font.width + 1]
  IN  IF BitAnd(byte, Pow2(b)) # 0 THEN 1 ELSE 0

\* idata of character li
fontGlyphData(font, li, transparent) ==
  LET rows == fontRows(font)
      channels == IF transparent THEN 2 ELSE 1
      state(i) == LET px == (i - 1) \div channels
                      r == rows[px \div font.width + 1]
                  IN  fontPixelState(font, li, r.p, r.b, px % font.width)
  IN  [i \in 1 .. Len(rows) * font.width * channels |->
         IF (i - 1) % channels = 0 THEN state(i)
         ELSE IF state(i) = 1 THEN 255 ELSE 0]

\* index of the last entry of lookup holding ch: a later entry replaces an earlier one
lastLookup(font, ch) ==
  CHOOSE li \in 1 .. Len(font.lookup) :
    /\ font.lookup[li] = ch
    /\ \A lj \in 1 .. Len(font.lookup) : font.lookup[lj] = ch => lj <= li

fontToImageMap(font, transparent) ==
  [width |-> font.width,
   height |-> font.height,
   glyphs |-> [ch \in {font.lookup[li] : li \in 1 .. Len(font.lookup)} |->
                 Image(font.width, font.height, IF transparent THEN 2 ELSE 1,
                       fontGlyphData(font, lastLookup(font, ch) - 1, transparent))]]

(* ------------------------------------------------------------------ *)
(* drawString                                                         *)
(* ------------------------------------------------------------------ *)
\* a string is a sequence of one-character strings
\* str.split(' ')
RECURSIVE splitSpaces(_, _, _)
splitSpaces(str, word, words) ==
  IF str = <<>> THEN Append(words, word)
  ELSE IF Head(str) = " " THEN splitSpaces(Tail(str), <<>>, Append(words, word))
  ELSE splitSpaces(Tail(str), Append(word, Head(str)), words)

split(str) == splitSpaces(str, <<>>, <<>>)

\* the state drawString works on: the canvas, the cursor and its local colOffset
Pen(d, cx, cy, colOffset) == [d |-> d, cursorx |-> cx, cursory |-> cy, colOffset |-> colOffset]

\* colOffset = 0; this.cursory += fontIM.height + lineSpacing; this.setCursor(colOffset, this.cursory)
stringNewLine(s, fontIM) ==
  Pen(s.d, 0, s.cursory + fontIM.height + Config.lineSpacing, 0)

\* one character of a word
stringChar(s, ch, fontIM, wrap) ==
  IF ch = "\n" THEN stringNewLine(s, fontIM)
  ELSE IF ch \in DOMAIN fontIM.glyphs THEN
    LET charImage == fontIM.glyphs[ch]
        d1 == drawImage(s.d, s.colOffset, s.cursory, charImage)
        d2 == IF charImage.channels # 2 /\ charImage.channels # 4
              THEN drawFillRect(
                     drawFillRect(d1, s.colOffset, s.cursory + charImage.height + 1,
                                  charImage.width, Config.lineSpacing, Num(0)),
                     s.colOffset + charImage.width + 1, s.cursory,
                     Config.letterSpacing, charImage.height + Config.lineSpacing, Num(0))
              ELSE d1
        colOffset == s.colOffset + charImage.width + Config.letterSpacing
        noRoom == wrap /\ colOffset >= Config.displayColumns - fontIM.width
    IN  IF noRoom
        THEN Pen(d2, 0, s.cursory + fontIM.height + Config.lineSpacing, 0)
        ELSE Pen(d2, colOffset, s.cursory, colOffset)
  ELSE s

RECURSIVE stringChars(_, _, _, _)
stringChars(s, wordChars, fontIM, wrap) ==
  IF wordChars = <<>> THEN s
  ELSE stringChars(stringChar(s, Head(wordChars), fontIM, wrap), Tail(wordChars), fontIM, wrap)

\* "handle word wrapping": the test made before word wi (0-based) is drawn
wordWraps(s, words, wi, fontIM, wrap) ==
  /\ wrap
  /\ wi # 0
  /\ s.colOffset > 0
  /\ s.colOffset + fontIM.width * Len(words[wi + 1]) > Config.displayColumns

\* the loop over the words
RECURSIVE stringWords(_, _, _, _, _)
stringWords(s, words, wi, fontIM, wrap) ==
  IF wi >= Len(words) THEN s
  ELSE
    LET s1 == IF wordWraps(s, words, wi, fontIM, wrap) THEN stringNewLine(s, fontIM) ELSE s
        word == words[wi + 1]
        \* "replace lost space between words"
        wordChars == IF wi < Len(words) - 1 \/ Len(word) = 0 THEN Append(word, " ") ELSE word
    IN  stringWords(stringChars(s1, wordChars, fontIM, wrap), words, wi + 1, fontIM, wrap)

\* for each word in turn: the word, colOffset and this.cursory when the loop
\* reaches it, and where they are when its first character is about to be drawn
RECURSIVE stringWordLog(_, _, _, _, _)
stringWordLog(s, words, wi, fontIM, wrap) ==
  IF wi >= Len(words) THEN <<>>
  ELSE
    LET s1 == IF wordWraps(s, words, wi, fontIM, wrap) THEN stringNewLine(s, fontIM) ELSE s
        word == words[wi + 1]
        wordChars == IF wi < Len(words) - 1 \/ Len(word) = 0 THEN Append(word, " ") ELSE word
    IN  <<[word |-> word, colOffset |-> s.colOffset, cursory |-> s.cursory,
           drawnAt |-> <<s1.colOffset, s1.cursory>>]>>
        \o stringWordLog(stringChars(s1, wordChars, fontIM, wrap), words, wi + 1, fontIM, wrap)

\* s = Pen(canvas, cursorx, cursory, cursorx)
drawString(s, str, fontIM, wrap) == stringWords(s, split(str), 0, fontIM, wrap)

(* ------------------------------------------------------------------ *)
(* The display device behind sendCommand / sendData / hardwareReset   *)
(* ------------------------------------------------------------------ *)
\* a transport call as the injected function receives it
Call(fn, bytes) == [fn |-> fn, bytes |-> bytes]

\* "(double byte command)": the byte after one of these is its value, not a command
DoubleByteCommands ==
  {SET_CONTRAST, SET_MULTIPLEX_RATIO, SET_DCDC_ON_OFF, SET_DISPLAY_OFFSET,
   SET_DISPLAY_CLOCK_RATIO, SET_CHARGE_PERIOD, SET_COMMON_PAD_CONFIG, SET_VCOM_LEVEL}

\* RAM cells never written read as 0x00
RamAt(dev, page, column) ==
  IF <<page, column>> \in DOMAIN dev.ram THEN dev.ram[<<page, column>>] ELSE 0

\* one command byte: the column address is set with two commands for the low and
\* the high nybble, the page address register with SET_PAGE_ADDRESS | page
deviceCommandByte(dev, b) ==
  IF b >= SET_COL_ADDR_LB /\ b < SET_COL_ADDR_LB + 16
    THEN [dev EXCEPT !.column = (dev.column \div 16) * 16 + (b - SET_COL_ADDR_LB)]
  ELSE IF b >= SET_COL_ADDR_HB /\ b < SET_COL_ADDR_HB + 16
    THEN [dev EXCEPT !.column = (b - SET_COL_ADDR_HB) * 16 + (dev.column % 16)]
  ELSE IF b >= SET_PAGE_ADDRESS /\ b < SET_PAGE_ADDRESS + 16
    THEN [dev EXCEPT !.page = b - SET_PAGE_ADDRESS]
  ELSE dev

RECURSIVE deviceCommand(_, _)
deviceCommand(dev, bytes) ==
  IF bytes = <<>> THEN dev
  ELSE LET b == ToUint8(Head(bytes))
       IN  IF b \in DoubleByteCommands
           THEN deviceCommand(dev, IF Len(bytes) > 1 THEN Tail(Tail(bytes)) ELSE <<>>)
           ELSE deviceCommand(deviceCommandByte(dev, b), Tail(bytes))

\* data bytes go to RAM at the addressed page and column; the column address
\* steps by one after each byte
RECURSIVE deviceData(_, _)
deviceData(dev, bytes) ==
  IF bytes = <<>> THEN dev
  ELSE
    LET inRam == dev.page < RamPages /\ dev.column < RamColumns
        wrote == IF inRam
                 THEN [dev EXCEPT !.ram = (<<dev.page, dev.column>> :> ToUint8(Head(bytes))) @@ @,
                                  !.column = dev.column + 1]
                 ELSE dev
    IN  deviceData(wrote, Tail(bytes))

deviceApply(dev, call) ==
  CASE call.fn = "sendCommand" -> deviceCommand(dev, call.bytes)
    [] call.fn = "sendData" -> deviceData(dev, call.bytes)
    [] call.fn = "hardwareReset" -> [dev EXCEPT !.page = 0, !.column = 0]

(* ------------------------------------------------------------------ *)
(* getInitSequence, displayOff, displayOn                             *)
(* ------------------------------------------------------------------ *)
getInitSequence ==
  << BitOr(SET_COL_ADDR_LB, 0),
     BitOr(SET_COL_ADDR_HB, 0),
     BitOr(SET_SEGMENT_REMAP, 0),
     BitOr(SET_DISPLAY_REVERSE, 0),
     SET_MULTIPLEX_RATIO, Config.multiplexRatio,
     BitOr(SET_ENTIRE_DISPLAY_ON_OFF, 0),
     SET_DISPLAY_OFFSET, 0,
     SET_DISPLAY_CLOCK_RATIO, 240,
     SET_CHARGE_PERIOD, 34,
     SET_COMMON_PAD_CONFIG, Config.commonPadConfig,
     SET_VCOM_LEVEL, 32 >>

displayOffCall == Call("sendCommand", <<DISPLAY_ON_OFF>>)
displayOnCall == Call("sendCommand", <<BitOr(DISPLAY_ON_OFF, 1)>>)

(* ------------------------------------------------------------------ *)
(* sendBuffer                                                         *)
(* ------------------------------------------------------------------ *)
\* SET_COL_ADDR_LB | this.Config.columnOffset; an undefined columnOffset converts to 0
sendBufferColLowBits ==
  BitOr(SET_COL_ADDR_LB, IF Config.hasColumnOffset THEN Config.columnOffset ELSE 0)

sendBufferColHighBits == BitOr(SET_COL_ADDR_HB, 0)

\* [set_page_address, set_col_low_bits, set_col_high_bits]
sendBufferHeader(set_page_address) ==
  Call("sendCommand", <<set_page_address, sendBufferColLowBits, sendBufferColHighBits>>)

\* the loop test with <= for <
sendBufferMore_Inclusive(y) == 8 * y <= Config.displayRows

\* y < this.Config.displayRows / 8
sendBufferMore(y) == 8 * y < Config.displayRows

\* Buffer.from(this.buffer.slice(offset, offset + this.Config.displayColumns))
sendBufferPage(y) ==
  LET offset == y * Config.displayColumns
  IN  Call("sendData", BufferSlice(buffer, offset, offset + Config.displayColumns))

(* ------------------------------------------------------------------ *)
(* updateDisplay                                                      *)
(* ------------------------------------------------------------------ *)
\* the decimal digits of a property key, as character codes ("-" is 45, "0" is 48)
RECURSIVE digits(_)
digits(n) == IF n < 10 THEN <<48 + n>> ELSE Append(digits(n \div 10), 48 + (n % 10))
keyString(n) == IF n < 0 THEN <<45>> \o digits(-n) ELSE digits(n)

\* the order Array.prototype.sort() puts two different strings in
RECURSIVE stringLess(_, _)
stringLess(a, b) ==
  IF a = <<>> THEN b # <<>>
  ELSE IF b = <<>> THEN FALSE
  ELSE IF Head(a) # Head(b) THEN Head(a) < Head(b)
  ELSE stringLess(Tail(a), Tail(b))

\* Object.keys(obj) followed by sort(): the keys in string order
RECURSIVE sortedKeys(_)
sortedKeys(keys) ==
  IF keys = {} THEN <<>>
  ELSE LET first == CHOOSE k \in keys :
                      \A j \in keys \ {k} : stringLess(keyString(k), keyString(j))
       IN  <<first>> \o sortedKeys(keys \ {first})

\* Math.min(...columns), Math.max(...columns)
MinOf(S) == CHOOSE m \in S : \A k \in S : m <= k
\* Math.max that returns the smallest column
MaxOf_Smallest(S) == CHOOSE m \in S : \A k \in S : m <= k
MaxOf(S) == CHOOSE m \in S : \A k \in S : m >= k

\* minx + this.Config.columnOffset is NaN when columnOffset is undefined, and
\* NaN & 0x0F and (NaN & 0xF0) >> 4 are 0
updateColLowBits(minx) ==
  BitOr(SET_COL_ADDR_LB,
        IF Config.hasColumnOffset THEN BitAnd(minx + Config.columnOffset, 15) ELSE 0)

updateColHighBits(minx) ==
  BitOr(SET_COL_ADDR_HB,
        IF Config.hasColumnOffset THEN BitAnd(minx + Config.columnOffset, 240) \div 16 ELSE 0)

\* [set_page_address, set_col_low_bits, set_col_high_bits] for pages[pi]
updateHeader(page, minx) ==
  Call("sendCommand",
       <<BitOr(SET_PAGE_ADDRESS, page), updateColLowBits(minx), updateColHighBits(minx)>>)

\* updatePage without the "+ 1": the slice ends before column maxx
updatePage_Short(page, minx, maxx) ==
  LET offset == page * Config.displayColumns + minx
  IN  Call("sendData", BufferSlice(buffer, offset, offset + (maxx - minx)))

\* Buffer.from(this.buffer.slice(offset, offset + (maxx - minx) + 1))
updatePage(page, minx, maxx) ==
  LET offset == page * Config.displayColumns + minx
  IN  Call("sendData", BufferSlice(buffer, offset, offset + (maxx - minx) + 1))

\* delete this.dirtyBytes[pages[pi]]
dirtyDelete(dirty, page) == [p \in DOMAIN dirty \ {page} |-> dirty[p]]

(* ------------------------------------------------------------------ *)
(* The async methods, one action per stretch of code between awaits   *)
(* ------------------------------------------------------------------ *)
\* task.op is the method the caller invoked, task.pc the await it is suspended in,
\* task.result how the last invocation ended
Task(op, pc, result) ==
  [op |-> op, pc |-> pc, result |-> result, y |-> 0, set_page_address |-> 0,
   pages |-> <<>>, pi |-> 0, minx |-> 0, maxx |-> 0]

Idle == task.pc = "idle"

\* the state an async stretch leaves: the task, the call log, the device, the dirty bytes
Out(t, log, dev, dirty) == [task |-> t, calls |-> log, device |-> dev, dirtyBytes |-> dirty]

\* the injected transport function is called with `call`
Transport(o, call) ==
  Out(o.task, Append(o.calls, call), deviceApply(o.device, call), o.dirtyBytes)

\* the method is over and its local variables are gone
Returned(o) == Out(Task(o.task.op, "idle", "returned"), o.calls, o.device, o.dirtyBytes)

\* a rejection that also drops the dirty bytes
Threw_ForgetsDirty(o) == Out(Task(o.task.op, "idle", "rejected"), o.calls, o.device, NoDirty)

Threw(o) == Out(Task(o.task.op, "idle", "rejected"), o.calls, o.device, o.dirtyBytes)

At(o, pc) == Out([o.task EXCEPT !.pc = pc], o.calls, o.device, o.dirtyBytes)

Becomes(o) ==
  /\ task' = o.task
  /\ calls' = o.calls
  /\ device' = o.device
  /\ dirtyBytes' = o.dirtyBytes

Here == Out(task, calls, device, dirtyBytes)

\* sendBuffer has returned: init goes on to displayOn, a direct call is over
sendBufferReturn(o) ==
  IF o.task.op = "init" THEN At(Transport(o, displayOnCall), "init_displayOn")
  ELSE Returned(o)

\* the for loop of sendBuffer at its test, with y and set_page_address as given
sendBufferLoop(o, y, set_page_address) ==
  IF sendBufferMore(y)
  THEN LET t == [o.task EXCEPT !.y = y, !.set_page_address = set_page_address,
                               !.pc = "sendBuffer_sendCommand"]
       IN  Transport(Out(t, o.calls, o.device, o.dirtyBytes), sendBufferHeader(set_page_address))
  ELSE sendBufferReturn(o)

\* sendBuffer from its first line to its first await
sendBufferEnter(o) == sendBufferLoop(o, 0, BitOr(SET_PAGE_ADDRESS, 0))

\* the for loop of updateDisplay at its test, with pi as given
RECURSIVE updateLoop(_, _)
updateLoop(o, pi) ==
  IF pi < Len(o.task.pages)
  THEN LET page == o.task.pages[pi + 1]
       IN  IF page \notin DOMAIN o.dirtyBytes
           THEN Threw(o)  \* Object.keys(undefined) throws
           ELSE LET columns == DOMAIN o.dirtyBytes[page]
                IN  IF columns # {}
                    THEN LET minx == MinOf(columns)
                             maxx == MaxOf(columns)
                             t == [o.task EXCEPT !.pi = pi, !.minx = minx, !.maxx = maxx,
                                                 !.pc = "updateDisplay_sendCommand"]
                         IN  Transport(Out(t, o.calls, o.device, o.dirtyBytes),
                                       updateHeader(page, minx))
                    ELSE updateLoop(Out(o.task, o.calls, o.device,
                                        dirtyDelete(o.dirtyBytes, page)), pi + 1)
  ELSE Returned(o)

Called(op) ==
  /\ Idle
  /\ nasync < MaxAsync
  /\ nasync' = nasync + 1
  /\ lastCall' = [op |-> op, after |-> lastCall.op]
  /\ UNCHANGED <<Config, buffer, cursorx, cursory, ncalls, interleaved>>

Resumed(pc) ==
  /\ task.pc = pc
  /\ UNCHANGED <<Config, buffer, cursorx, cursory, lastCall, ncalls, nasync, interleaved>>

\* init(): await this.Config.hardwareReset()
InitCall ==
  /\ Called("init")
  /\ Becomes(Transport(Out(Task("init", "init_hardwareReset", "pending"), <<>>, device,
                           dirtyBytes),
                       Call("hardwareReset", <<>>)))

\* await this.displayOff()
InitDisplayOff ==
  /\ Resumed("init_hardwareReset")
  /\ Becomes(At(Transport(Here, displayOffCall), "init_displayOff"))

\* await this.Config.sendCommand(this.getInitSequence())
InitSendSequence ==
  /\ Resumed("init_displayOff")
  /\ Becomes(At(Transport(Here, Call("sendCommand", getInitSequence)), "init_sendCommand"))

\* await this.sendBuffer(): sendBuffer runs to its first await
InitSendBuffer ==
  /\ Resumed("init_sendCommand")
  /\ Becomes(sendBufferEnter(Here))

\* displayOn has resolved: init returns
InitReturn ==
  /\ Resumed("init_displayOn")
  /\ Becomes(Returned(Here))

\* sendBuffer() called by the user
SendBufferCall ==
  /\ Called("sendBuffer")
  /\ Becomes(sendBufferEnter(Out(Task("sendBuffer", "idle", "pending"), <<>>, device,
                                 dirtyBytes)))

\* the header is sent: await this.Config.sendData(pageBuffer)
SendBufferData ==
  /\ Resumed("sendBuffer_sendCommand")
  /\ Becomes(At(Transport(Here, sendBufferPage(task.y)), "sendBuffer_sendData"))

\* the page is sent: set_page_address += 1, y++ and the loop test
SendBufferNext ==
  /\ Resumed("sendBuffer_sendData")
  /\ Becomes(sendBufferLoop(Here, task.y + 1, task.set_page_address + 1))

\* updateDisplay() called by the user
UpdateDisplayCall ==
  /\ Called("updateDisplay")
  /\ LET pages == sortedKeys(DOMAIN dirtyBytes)
         t == [Task("updateDisplay", "idle", "pending") EXCEPT !.pages = pages]
         o == Out(t, <<>>, device, dirtyBytes)
     IN  \* if (!pages.length) { return; }
         Becomes(IF pages = <<>> THEN Returned(o) ELSE updateLoop(o, 0))

\* the header is sent: await this.Config.sendData(pageBuffer)
UpdateDisplayData ==
  /\ Resumed("updateDisplay_sendCommand")
  /\ Becomes(At(Transport(Here, updatePage(task.pages[task.pi + 1], task.minx, task.maxx)),
                "updateDisplay_sendData"))

\* the bytes are sent: delete this.dirtyBytes[pages[pi]], pi++ and the loop test
UpdateDisplayNext ==
  /\ Resumed("updateDisplay_sendData")
  /\ Becomes(updateLoop(Out(task, calls, device,
                            dirtyDelete(dirtyBytes, task.pages[task.pi + 1])),
                        task.pi + 1))

\* the promise of the awaited transport call rejects: the exception leaves the
\* method at that await (and init, when it is awaiting sendBuffer)
TransportFails ==
  /\ task.pc # "idle"
  /\ UNCHANGED <<Config, buffer, cursorx, cursory, lastCall, ncalls, nasync, interleaved>>
  /\ Becomes(Threw(Here))

(* ------------------------------------------------------------------ *)
(* The synchronous methods                                            *)
(* ------------------------------------------------------------------ *)
Here2 == Canvas(buffer, dirtyBytes)

\* a drawing method called with `call` leaves the canvas d; `during` is the
\* async method that was suspended, or idle, when the call was made
Draw(call, d) ==
  /\ ncalls < MaxCalls
  /\ ncalls' = ncalls + 1
  /\ lastCall' = call @@ [during |-> task]
  /\ buffer' = d.buffer
  /\ dirtyBytes' = d.dirtyBytes
  /\ UNCHANGED <<Config, cursorx, cursory, task, calls, device, nasync>>
  /\ interleaved' = (interleaved \/ task.pc # "idle")

\* drawPixels(pixel) with one pixel [x, y, color], which drawPixels makes [pixel]
DrawPixelsCall(x, y, color) ==
  Draw([op |-> "drawPixels", x |-> x, y |-> y, color |-> color],
       drawPixels(Here2, <<Pixel(x, y, color)>>))

DrawLineCall(x0, y0, x1, y1, color) ==
  Draw([op |-> "drawLine", x0 |-> x0, y0 |-> y0, x1 |-> x1, y1 |-> y1, color |-> color,
        run |-> linePixelsOf(x0, y0, x1, y1, color)],
       drawLine(Here2, x0, y0, x1, y1, color))

DrawFillRectCall(x, y, w, h, color) ==
  Draw([op |-> "drawFillRect", x |-> x, y |-> y, w |-> w, h |-> h, color |-> color],
       drawFillRect(Here2, x, y, w, h, color))

DrawImageCall(dx, dy, image) ==
  Draw([op |-> "drawImage", dx |-> dx, dy |-> dy, image |-> image],
       drawImage(Here2, dx, dy, image))

DrawStringCall(str, fontIM, wrap) ==
  LET s == drawString(Pen(Here2, cursorx, cursory, cursorx), str, fontIM, wrap)
  IN  /\ ncalls < MaxCalls
      /\ ncalls' = ncalls + 1
      /\ lastCall' = [op |-> "drawString", str |-> str, fontIM |-> fontIM, wrap |-> wrap,
                      words |-> stringWordLog(Pen(Here2, cursorx, cursory, cursorx),
                                              split(str), 0, fontIM, wrap)]
      /\ buffer' = s.d.buffer
      /\ dirtyBytes' = s.d.dirtyBytes
      /\ cursorx' = s.cursorx
      /\ cursory' = s.cursory
      /\ UNCHANGED <<Config, task, calls, device, nasync>>
      /\ interleaved' = (interleaved \/ task.pc # "idle")

\* clearBuffer that also forgets the dirty bytes
ClearBuffer_ResetsDirty ==
  /\ ncalls < MaxCalls
  /\ ncalls' = ncalls + 1
  /\ lastCall' = [op |-> "clearBuffer"]
  /\ buffer' = ZeroBuffer(Config)
  /\ dirtyBytes' = NoDirty
  /\ UNCHANGED <<Config, cursorx, cursory, task, calls, device, nasync>>
  /\ interleaved' = (interleaved \/ task.pc # "idle")

\* this.buffer.fill(0x00)
ClearBuffer ==
  /\ ncalls < MaxCalls
  /\ ncalls' = ncalls + 1
  /\ lastCall' = [op |-> "clearBuffer"]
  /\ buffer' = ZeroBuffer(Config)
  /\ UNCHANGED <<Config, dirtyBytes, cursorx, cursory, task, calls, device, nasync>>
  /\ interleaved' = (interleaved \/ task.pc # "idle")

SetCursorCall(x, y) ==
  /\ ncalls < MaxCalls
  /\ ncalls' = ncalls + 1
  /\ lastCall' = [op |-> "setCursor", x |-> x, y |-> y]
  /\ cursorx' = x
  /\ cursory' = y
  /\ UNCHANGED <<Config, buffer, dirtyBytes, task, calls, device, nasync>>
  /\ interleaved' = (interleaved \/ task.pc # "idle")

SetClippedCall(m) ==
  /\ ncalls < MaxCalls
  /\ ncalls' = ncalls + 1
  /\ lastCall' = [op |-> "setClipped", clippedMethod |-> m]
  /\ Config' = [Config EXCEPT !.clippedMethod = m]
  /\ UNCHANGED <<buffer, dirtyBytes, cursorx, cursory, task, calls, device, nasync>>
  /\ interleaved' = (interleaved \/ task.pc # "idle")

(* ------------------------------------------------------------------ *)
(* Arguments the methods are called with                              *)
(* ------------------------------------------------------------------ *)
\* columnOffset of the configuration; the property may also be left out
ColumnOffsets == {0, 14, 120}

DisplayRows == 8 * DisplayPages

\* a font in the oled-js format: 1 column wide, 7 rows high, one byte per character
Fonts == { Font(1, 7, <<"A", "B">>, <<85, 127>>) }
FontIMs == { fontToImageMap(f, t) : f \in Fonts, t \in BOOLEAN }

\* arguments of the calls made between async calls
PixelXs == {0, DisplayColumns - 1}
PixelYs == {1, DisplayRows - 7}
PixelColors == {Num(1), Str("BLACK")}
LineEnds == {<<0, 0>>, <<DisplayColumns - 1, 2>>, <<1, DisplayRows - 1>>}
RectYs == {6}
RectSizes == {0, 2}
Images ==
  { Image(1, 2, 1, <<255, 0>>),
    Image(2, 2, 2, <<255, 255, 0, 0, 0, 255, 255, 255>>),
    Image(1, 2, 3, <<0, 0, 0, 0, 255, 0>>),
    Image(1, 2, 4, <<0, 0, 255, 255, 255, 0, 0, 0>>) }
ImageXs == {DisplayColumns - 1}
ImageYs == {7}
Strings == { <<"B", "A">>, <<"A", "\n", "B">> }
CursorXs == {1}
CursorYs == {8}

DrawPixels == \E x \in PixelXs, y \in PixelYs, color \in PixelColors : DrawPixelsCall(x, y, color)
DrawLine == \E a \in LineEnds, b \in LineEnds : DrawLineCall(a[1], a[2], b[1], b[2], Num(1))
DrawFillRect == \E y \in RectYs, w \in RectSizes, h \in RectSizes : DrawFillRectCall(0, y, w, h, Num(1))
DrawImage == \E dx \in ImageXs, dy \in ImageYs, image \in Images : DrawImageCall(dx, dy, image)
DrawString == \E str \in Strings, fontIM \in FontIMs : DrawStringCall(str, fontIM, TRUE)
SetCursor == \E x \in CursorXs, y \in CursorYs : SetCursorCall(x, y)
SetClipped == \E m \in ClippedMethods : SetClippedCall(m)

(* ------------------------------------------------------------------ *)
(* Specifications                                                     *)
(* ------------------------------------------------------------------ *)
\* the constructor
NewConfig(hasColumnOffset, columnOffset) ==
  [displayColumns |-> DisplayColumns,
   displayRows |-> DisplayRows,
   hasColumnOffset |-> hasColumnOffset,
   columnOffset |-> columnOffset,
   lineSpacing |-> 1,
   letterSpacing |-> 1,
   multiplexRatio |-> 63,
   commonPadConfig |-> 18,
   clippedMethod |-> "none"]

Constructed(cfg) ==
  /\ Config = cfg
  /\ buffer = ZeroBuffer(cfg)
  /\ dirtyBytes = NoDirty
  /\ cursorx = 0
  /\ cursory = 0
  /\ task = Task("none", "idle", "none")
  /\ calls = <<>>
  /\ device = [page |-> 0, column |-> 0, ram |-> <<>>]
  /\ lastCall = [op |-> "constructor"]
  /\ ncalls = 0
  /\ nasync = 0
  /\ interleaved = FALSE

Init ==
  \E cfg \in {NewConfig(TRUE, o) : o \in ColumnOffsets} \cup {NewConfig(FALSE, 0)} :
    Constructed(cfg)

AsyncStep ==
  \/ InitCall
  \/ InitDisplayOff
  \/ InitSendSequence
  \/ InitSendBuffer
  \/ InitReturn
  \/ SendBufferCall
  \/ SendBufferData
  \/ SendBufferNext
  \/ UpdateDisplayCall
  \/ UpdateDisplayData
  \/ UpdateDisplayNext

\* every method, each called while no async method is in progress
Next ==
  \/ Idle /\ DrawPixels
  \/ Idle /\ DrawLine
  \/ Idle /\ DrawFillRect
  \/ Idle /\ DrawImage
  \/ Idle /\ DrawString
  \/ Idle /\ ClearBuffer
  \/ Idle /\ SetCursor
  \/ Idle /\ SetClipped
  \/ AsyncStep

Spec == Init /\ [][Next]_vars

(* ------------------------------------------------------------------ *)
(* SpecDraw: the drawing methods alone, over wider arguments          *)
(* ------------------------------------------------------------------ *)
\* columnOffset of the example configuration
ExampleColumnOffset == 2

AllXs == -1 .. DisplayColumns
AllYs == -1 .. DisplayRows
LineYs == (-1 .. 3) \cup (DisplayRows - 2 .. DisplayRows)
AllSizes == -1 .. 2
AllRectYs == {-1, 0, 6, DisplayRows - 1}
AllImageYs == {-2, -1, 0, 6, 7, DisplayRows - 1, DisplayRows}

\* the calls that build up buffer content before the call under study
LeadIn ==
  \/ DrawPixels
  \/ DrawLine
  \/ DrawFillRect
  \/ DrawImage
  \/ DrawString
  \/ ClearBuffer
  \/ SetCursor
  \/ SetClipped

DrawPixelsAny == \E x \in AllXs, y \in AllYs, color \in Colors : DrawPixelsCall(x, y, color)
DrawLineAny ==
  \E x0 \in AllXs, y0 \in LineYs, x1 \in AllXs, y1 \in LineYs : DrawLineCall(x0, y0, x1, y1, Num(1))
DrawFillRectAny ==
  \E x \in AllXs, y \in AllRectYs, w \in AllSizes, h \in AllSizes, color \in {Num(0), Num(1)} :
    DrawFillRectCall(x, y, w, h, color)
DrawImageAny == \E dx \in AllXs, dy \in AllImageYs, image \in Images : DrawImageCall(dx, dy, image)
DrawStringAny ==
  \E str \in Strings, fontIM \in FontIMs, wrap \in BOOLEAN : DrawStringCall(str, fontIM, wrap)

InitDraw == Constructed(NewConfig(TRUE, ExampleColumnOffset))

\* one synchronous call is left to make
MayCall == ncalls = MaxCalls - 1

NextDraw ==
  \/ ncalls < MaxCalls - 1 /\ LeadIn
  \/ MayCall /\ DrawPixelsAny
  \/ MayCall /\ DrawLineAny
  \/ MayCall /\ DrawFillRectAny
  \/ MayCall /\ DrawImageAny
  \/ MayCall /\ DrawStringAny

SpecDraw == InitDraw /\ [][NextDraw]_vars

(* ------------------------------------------------------------------ *)
(* Properties                                                         *)
(* ------------------------------------------------------------------ *)
\* bit k of a byte
BitOf(byte, k) == (byte \div Pow2(k)) % 2

\* the dirty set as (page, column, byte) entries
DirtyEntries(dirty) ==
  UNION { { <<p, c, dirty[p][c]>> : c \in DOMAIN dirty[p] } : p \in DOMAIN dirty }

\* the step is a call of the synchronous method op
CallOf(op) == ncalls' = ncalls + 1 /\ lastCall'.op = op

InBounds(x, y) ==
  /\ x >= 0 /\ x < Config.displayColumns
  /\ y >= 0 /\ y < Config.displayRows

\* the installed clip method, if any, reports (x, y) as clipped
ReportedClipped(x, y) ==
  /\ Config.clippedMethod # "none"
  /\ clippedMethod(Config.clippedMethod, Coord(x), Coord(y))

\* a pixel write at (x, y) is to be rejected
Rejected(x, y) == ~InBounds(x, y) \/ ReportedClipped(x, y)

Unchanged == buffer' = buffer /\ dirtyBytes' = dirtyBytes

\* every pixel the call writes is at a coordinate to be rejected
AllRejected(call) ==
  CASE call.op = "drawPixels" -> Rejected(call.x, call.y)
    [] call.op = "drawLine" ->
         \A i \in 1 .. Len(call.run.linePixels) :
           Rejected(call.run.linePixels[i].x, call.run.linePixels[i].y)
    [] call.op = "drawImage" ->
         \A x \in 0 .. call.image.width - 1, y \in 0 .. call.image.height - 1 :
           Rejected(call.dx + x, call.dy + y)
    [] OTHER -> FALSE

\* C2: a pixel write at a coordinate outside the display, or at a coordinate the
\* installed clip method reports as clipped, leaves the buffer and the dirty set
\* unchanged, with or without a clip method installed.
C2_ClippedWriteLeavesBuffer ==
  [][(ncalls' = ncalls + 1 /\ AllRejected(lastCall')) => Unchanged]_vars

\* C3: drawPixels([x, y, state]) at an in-bounds coordinate that is not clipped
\* changes only bit y mod 8 of the byte at x + displayColumns * floor(y / 8): On
\* (1, 'WHITE') sets it, Off (0, 'BLACK') clears it, and the dirty entry
\* (page, x) -> new byte is recorded exactly when the byte changed.
PixelWritten(x, y, color) ==
  LET page == y \div 8
      bit == y % 8
      offset == x + Config.displayColumns * page
      on == color \in {Num(1), Str("WHITE")}
  IN  /\ \A o \in DOMAIN buffer : o # offset => buffer'[o] = buffer[o]
      /\ DOMAIN buffer' = DOMAIN buffer
      /\ \A k \in 0 .. 7 : k # bit => BitOf(buffer'[offset], k) = BitOf(buffer[offset], k)
      /\ BitOf(buffer'[offset], bit) = (IF on THEN 1 ELSE 0)
      /\ IF buffer'[offset] # buffer[offset]
         THEN DirtyEntries(dirtyBytes') =
                { e \in DirtyEntries(dirtyBytes) : ~(e[1] = page /\ e[2] = x) }
                \cup { <<page, x, buffer'[offset]>> }
         ELSE dirtyBytes' = dirtyBytes

C3_DrawPixelsSetsOneBit ==
  [][(CallOf("drawPixels") /\ InBounds(lastCall'.x, lastCall'.y)
      /\ ~clipped(Coord(lastCall'.x), Coord(lastCall'.y)))
     => PixelWritten(lastCall'.x, lastCall'.y, lastCall'.color)]_vars

\* a second drawPixels call cleared a bit of a byte that keeps another bit set
C3_Witness ==
  /\ lastCall.op = "drawPixels"
  /\ ncalls = MaxCalls
  /\ InBounds(lastCall.x, lastCall.y)
  /\ ~clipped(Coord(lastCall.x), Coord(lastCall.y))
  /\ IsBlack(lastCall.color)
  /\ LET page == lastCall.y \div 8
         offset == lastCall.x + Config.displayColumns * page
     IN  /\ buffer[offset] # 0
         /\ page \in DOMAIN dirtyBytes
         /\ lastCall.x \in DOMAIN dirtyBytes[page]
         /\ dirtyBytes[page][lastCall.x] = buffer[offset]

\* C9: drawFillRect(x, y, w, h, state) with w <= 0 or h <= 0 changes no buffer
\* byte and adds no dirty entry.
C9_EmptyRectDrawsNothing ==
  [][(CallOf("drawFillRect") /\ (lastCall'.w <= 0 \/ lastCall'.h <= 0)) => Unchanged]_vars

\* C10: drawLine terminates and writes max(|x1-x0|, |y1-y0|) + 1 points, from
\* (x0, y0) to (x1, y1), each next to the one before; an in-bounds horizontal
\* line drawn On on a zeroed buffer with an empty dirty set sets exactly the bits
\* of row y at columns min(x0, x1) .. max(x0, x1) and leaves the dirty set
\* holding page floor(y / 8) with exactly those columns.
LinePoints(call) ==
  LET pts == call.run.linePixels
  IN  /\ call.run.returns
      /\ Len(pts) = Max2(Abs(call.x1 - call.x0), Abs(call.y1 - call.y0)) + 1
      /\ pts[1].x = call.x0 /\ pts[1].y = call.y0
      /\ pts[Len(pts)].x = call.x1 /\ pts[Len(pts)].y = call.y1
      /\ \A i \in 1 .. Len(pts) - 1 :
           /\ Abs(pts[i + 1].x - pts[i].x) <= 1
           /\ Abs(pts[i + 1].y - pts[i].y) <= 1
           /\ pts[i + 1] # pts[i]

HorizontalLineDrawn(call) ==
  LET lo == Min2(call.x0, call.x1)
      hi == Max2(call.x0, call.x1)
      page == call.y0 \div 8
      byte == Pow2(call.y0 % 8)
  IN  /\ \A o \in DOMAIN buffer' :
           buffer'[o] = IF o \in { c + Config.displayColumns * page : c \in lo .. hi }
                        THEN byte ELSE 0
      /\ DirtyEntries(dirtyBytes') = { <<page, c, byte>> : c \in lo .. hi }

IsHorizontalOn(call) ==
  /\ call.y0 = call.y1
  /\ IsWhite(call.color)
  /\ InBounds(call.x0, call.y0) /\ InBounds(call.x1, call.y1)
  /\ \A c \in Min2(call.x0, call.x1) .. Max2(call.x0, call.x1) :
       ~clipped(Coord(c), Coord(call.y0))

C10_DrawLinePoints ==
  [][CallOf("drawLine") =>
       /\ LinePoints(lastCall')
       /\ (IsHorizontalOn(lastCall') /\ buffer = ZeroBuffer(Config) /\ dirtyBytes = NoDirty)
            => HorizontalLineDrawn(lastCall')]_vars

\* a slanted line of more than two points, drawn towards lower x, reached its end
C10_Witness ==
  /\ lastCall.op = "drawLine"
  /\ lastCall.run.returns
  /\ lastCall.x1 < lastCall.x0 - 1
  /\ lastCall.y1 > lastCall.y0
  /\ buffer # ZeroBuffer(Config)

(* ------------------------------------------------------------------ *)
(* SpecDefault: sequential use with default clipping, a columnOffset  *)
(* given, and no clearBuffer                                          *)
(* ------------------------------------------------------------------ *)
InitDefault == \E o \in ColumnOffsets : Constructed(NewConfig(TRUE, o))

NextDefault ==
  \/ Idle /\ DrawPixels
  \/ Idle /\ DrawLine
  \/ Idle /\ DrawFillRect
  \/ Idle /\ DrawImage
  \/ Idle /\ DrawString
  \/ SendBufferCall
  \/ SendBufferData
  \/ SendBufferNext
  \/ UpdateDisplayCall
  \/ UpdateDisplayData
  \/ UpdateDisplayNext

SpecDefault == InitDefault /\ [][NextDefault]_vars

\* the RAM column offset; a configuration without columnOffset counts as 0
OffsetOf(cfg) == IF cfg.hasColumnOffset THEN cfg.columnOffset ELSE 0

\* device RAM equals the buffer on every addressed byte
Coherent ==
  \A p \in 0 .. DisplayPages - 1, c \in 0 .. Config.displayColumns - 1 :
    RamAt(device, p, c + OffsetOf(Config)) = buffer[c + Config.displayColumns * p]

AsyncReturned(op) ==
  /\ lastCall.op = op
  /\ task.op = op
  /\ task.pc = "idle"
  /\ task.result = "returned"

\* C1: from a state where device RAM equals the buffer and the dirty set is
\* empty, any sequence of drawing calls followed by one updateDisplay that runs
\* to completion leaves device RAM equal to the buffer on every addressed byte
\* and the dirty set empty.
C1_SyncCoherence ==
  AsyncReturned("updateDisplay") => (Coherent /\ dirtyBytes = NoDirty)

\* a second updateDisplay has sent the bytes drawn after the first
C1_Witness ==
  /\ AsyncReturned("updateDisplay")
  /\ nasync = MaxAsync
  /\ ncalls = MaxCalls
  /\ lastCall.after \in {"drawImage", "drawString", "drawLine"}
  /\ Len(calls) > 2
  /\ \E p \in 0 .. DisplayPages - 1, c \in 1 .. Config.displayColumns - 1 :
       /\ buffer[c + Config.displayColumns * p] # 0
       /\ RamAt(device, p, c + OffsetOf(Config)) = buffer[c + Config.displayColumns * p]

(* ------------------------------------------------------------------ *)
(* sendBuffer, updateDisplay, init and clearBuffer                    *)
(* ------------------------------------------------------------------ *)
\* C4: a completed sendBuffer() followed immediately by updateDisplay() makes
\* updateDisplay issue zero transport calls, i.e. the dirty set is empty when
\* sendBuffer has completed.
C4_SendBufferEmptiesDirty ==
  /\ AsyncReturned("sendBuffer") => dirtyBytes = NoDirty
  /\ (lastCall.op = "updateDisplay" /\ lastCall.after = "sendBuffer") => calls = <<>>

\* the step is the call of updateDisplay, or a resumption of it
UpdateCalled == lastCall'.op = "updateDisplay" /\ nasync' = nasync + 1
UpdateResumed == task.op = "updateDisplay" /\ task.pc # "idle" /\ task' # task

Last(s) == s[Len(s)]

\* the transport calls updateDisplay has made before the step
LogBefore == IF UpdateCalled THEN <<>> ELSE calls

IsHeaderOf(c, page) ==
  /\ c.fn = "sendCommand"
  /\ Len(c.bytes) = 3
  /\ c.bytes[1] = BitOr(176, page)

\* the buffer bytes of `page` at columns minX .. maxX of its dirty columns
DirtyRun(dirty, page) ==
  LET minX == MinOf(DOMAIN dirty[page])
      maxX == MaxOf(DOMAIN dirty[page])
  IN  [i \in 1 .. maxX - minX + 1 |->
         LET at == page * Config.displayColumns + minX + i - 1
         IN  IF at \in DOMAIN buffer THEN buffer[at] ELSE -1]

\* C5: for every page that has dirty columns updateDisplay issues exactly one
\* sendCommand (the address header) followed by exactly one sendData carrying
\* the maxX-minX+1 current buffer bytes of that page at columns minX..maxX, then
\* removes that page from the dirty set; pages with no dirty column cause no
\* transport call, and an updateDisplay on an empty dirty set causes none.
C5_UpdateDisplayTransfers ==
  [][ (UpdateCalled \/ UpdateResumed) =>
        /\ (UpdateCalled /\ dirtyBytes = NoDirty) =>
             (calls' = <<>> /\ task'.pc = "idle" /\ task'.result = "returned")
        /\ task'.pc = "updateDisplay_sendCommand" =>
             \E page \in DOMAIN dirtyBytes' :
               /\ \E c \in {Last(calls')} : IsHeaderOf(c, page)
               /\ Len(calls') = Len(LogBefore) + 1
               /\ SubSeq(calls', 1, Len(LogBefore)) = LogBefore
               /\ \A i \in 1 .. Len(LogBefore) : ~IsHeaderOf(LogBefore[i], page)
        /\ task'.pc = "updateDisplay_sendData" =>
             /\ dirtyBytes' = dirtyBytes
             /\ \E page \in DOMAIN dirtyBytes :
                  /\ IsHeaderOf(Last(calls), page)
                  /\ calls' = Append(calls, Call("sendData", DirtyRun(dirtyBytes, page)))
        /\ task.pc = "updateDisplay_sendData" =>
             /\ \A page \in DOMAIN dirtyBytes :
                  IsHeaderOf(calls[Len(calls) - 1], page) => page \notin DOMAIN dirtyBytes'
             /\ \A page \in DOMAIN dirtyBytes' :
                  page \in DOMAIN dirtyBytes /\ dirtyBytes'[page] = dirtyBytes[page]
        /\ task'.pc = "idle" =>
             /\ calls' = LogBefore
             /\ dirtyBytes' = NoDirty
             /\ task'.result = "returned"
    ]_vars

\* a page whose dirty columns have a gap has been sent as one run, gap included,
\* while another page is still dirty
C5_Witness ==
  /\ task.op = "updateDisplay"
  /\ task.pc = "updateDisplay_sendData"
  /\ Cardinality(DOMAIN dirtyBytes) = 2
  /\ \E page \in DOMAIN dirtyBytes :
       /\ IsHeaderOf(calls[Len(calls) - 1], page)
       /\ Cardinality(DOMAIN dirtyBytes[page]) = 2
       /\ Len(Last(calls).bytes) = 3
       /\ Last(calls).bytes[1] # 0

\* [0xB0 | page, 0x00 | (addr mod 16), 0x10 | floor(addr / 16)]
AddressHeader(page, addr) == <<BitOr(176, page), addr % 16, 16 + (addr \div 16)>>

HeaderIs(page, first) ==
  LET addr == first + OffsetOf(Config)
  IN  (page \in 0 .. RamPages - 1 /\ first >= 0 /\ addr \in 0 .. RamColumns - 1) =>
        Last(calls).bytes = AddressHeader(page, addr)

\* C6: every address header emitted by sendBuffer and by updateDisplay is
\* [0xB0 | page, 0x00 | (addr mod 16), 0x10 | floor(addr / 16)] with addr the
\* first transferred column (0 in sendBuffer, minX in updateDisplay) plus the
\* RAM column offset, an omitted columnOffset counting as 0.
C6_AddressHeader ==
  /\ task.pc = "sendBuffer_sendCommand" => HeaderIs(task.y, 0)
  /\ task.pc = "updateDisplay_sendCommand" =>
       LET page == task.pages[task.pi + 1]
       IN  HeaderIs(page, MinOf(DOMAIN dirtyBytes[page]))

InitLength == 4 + 2 * (Config.displayRows \div 8)

\* the i-th transport call of init is the one the order prescribes
InitCallOK(i, c) ==
  IF i = 1 THEN c = Call("hardwareReset", <<>>)
  ELSE IF i = 2 THEN c = Call("sendCommand", <<174>>)
  ELSE IF i = 3 THEN c = Call("sendCommand", getInitSequence)
  ELSE IF i = InitLength THEN c = Call("sendCommand", <<175>>)
  ELSE IF i > InitLength THEN FALSE
  ELSE IF (i - 4) % 2 = 0
       THEN IsHeaderOf(c, (i - 4) \div 2)
       ELSE c.fn = "sendData" /\ Len(c.bytes) = Config.displayColumns

\* C7: the transport calls of one successful init() are, in this order and no
\* others: hardwareReset(); sendCommand([0xAE]); sendCommand(getInitSequence());
\* for each page in ascending order one address-header sendCommand and one
\* sendData of displayColumns bytes; sendCommand([0xAF]).
C7_InitOrder ==
  task.op = "init" =>
    /\ \A i \in 1 .. Len(calls) : InitCallOK(i, calls[i])
    /\ task.result = "returned" => Len(calls) = InitLength
    /\ task.result \in {"pending", "returned"}

C7_Witness ==
  /\ AsyncReturned("init")
  /\ Len(calls) = InitLength
  /\ \E i \in 1 .. Len(calls) :
       calls[i].fn = "sendData" /\ \E k \in 1 .. Len(calls[i].bytes) : calls[i].bytes[k] # 0

\* C8: clearBuffer() sets every buffer byte to 0x00 and leaves the dirty set and
\* the cursor unchanged, so that an updateDisplay() right after a clearBuffer()
\* made on an empty dirty set issues no transport call.
C8_ClearBufferKeepsDirty ==
  [][ /\ (lastCall'.op = "clearBuffer" /\ ncalls' = ncalls + 1) =>
           /\ \A i \in DOMAIN buffer' : buffer'[i] = 0
           /\ DOMAIN buffer' = DOMAIN buffer
           /\ dirtyBytes' = dirtyBytes
           /\ cursorx' = cursorx /\ cursory' = cursory
           /\ calls' = calls /\ device' = device
      /\ (UpdateCalled /\ lastCall.op = "clearBuffer" /\ dirtyBytes = NoDirty) =>
           /\ calls' = <<>>
           /\ device' = device
           /\ task'.pc = "idle" /\ task'.result = "returned"
    ]_vars

\* the buffer was cleared after its content had reached the device, and the
\* updateDisplay that followed sent nothing
C8_Witness ==
  /\ AsyncReturned("updateDisplay")
  /\ lastCall.after = "clearBuffer"
  /\ calls = <<>>
  /\ dirtyBytes = NoDirty
  /\ \A i \in DOMAIN buffer : buffer[i] = 0
  /\ \E p \in 0 .. DisplayPages - 1, c \in 0 .. Config.displayColumns - 1 :
       RamAt(device, p, c + OffsetOf(Config)) # 0

(* ------------------------------------------------------------------ *)
(* SpecAsync: the transport may fail, and drawPixels may be called    *)
(* while an async method is suspended                                 *)
(* ------------------------------------------------------------------ *)
InitAsync == Constructed(NewConfig(TRUE, ExampleColumnOffset))

NextAsync ==
  \/ DrawPixels
  \/ Idle /\ DrawImage
  \/ AsyncStep
  \/ TransportFails

SpecAsync == InitAsync /\ [][NextAsync]_vars

\* the step is the failure of the transport call an async method awaits
FailStep == task.pc # "idle" /\ task'.pc = "idle" /\ task'.result = "rejected"

\* C11: when a transport call fails inside init, sendBuffer or updateDisplay the
\* operation ends with that failure and issues no further transport call, buffer
\* and cursor are unchanged by it; for updateDisplay the dirty set still holds
\* the page whose transfer failed and every page not yet processed, and no
\* longer holds the pages whose transfers completed.
C11_TransportFailure ==
  [][ /\ FailStep =>
           /\ calls' = calls
           /\ buffer' = buffer
           /\ cursorx' = cursorx /\ cursory' = cursory
           /\ dirtyBytes' = dirtyBytes
           /\ task'.op = task.op
           /\ (task.op = "updateDisplay" /\ ~interleaved) =>
                \A k \in 1 .. Len(task.pages) :
                  IF k <= task.pi
                  THEN task.pages[k] \notin DOMAIN dirtyBytes'
                  ELSE /\ task.pages[k] \in DOMAIN dirtyBytes'
                       /\ DOMAIN dirtyBytes'[task.pages[k]] # {}
      \* an operation that has failed makes no transport call and changes nothing
      /\ (task.pc = "idle" /\ task.result = "rejected" /\ calls' # calls) =>
           nasync' = nasync + 1
      /\ (task.pc # "idle" /\ lastCall' = lastCall) =>
           (buffer' = buffer /\ cursorx' = cursorx /\ cursory' = cursory)
    ]_vars

\* updateDisplay failed in the transfer of its second page: the first page is
\* gone from the dirty set, the second is still there
C11_Witness ==
  /\ task.op = "updateDisplay"
  /\ task.pc = "idle"
  /\ task.result = "rejected"
  /\ ~interleaved
  /\ Len(calls) = 4
  /\ Cardinality(DOMAIN dirtyBytes) = 1

(* ------------------------------------------------------------------ *)
(* drawImage against single-pixel writes                              *)
(* ------------------------------------------------------------------ *)
\* the channel bytes of image pixel (x, y), first channel first
ChannelBytes(image, x, y) ==
  [k \in 1 .. image.channels |->
     image.data[image.width * image.channels * y + image.channels * x + k]]

IsTransparent(image, x, y) ==
  /\ image.channels \in {2, 4}
  /\ ChannelBytes(image, x, y)[image.channels] = 0

IsOn(image, x, y) ==
  IF image.channels < 3 THEN ChannelBytes(image, x, y)[1] # 0
  ELSE \E k \in 1 .. 3 : ChannelBytes(image, x, y)[k] # 0

OpaquePixels(image) ==
  { xy \in (0 .. image.width - 1) \X (0 .. image.height - 1) :
      ~IsTransparent(image, xy[1], xy[2]) }

\* every order the elements of S can be put in
RECURSIVE Orders(_)
Orders(S) ==
  IF S = {} THEN {<<>>}
  ELSE UNION { { <<e>> \o rest : rest \in Orders(S \ {e}) } : e \in S }

\* the single-pixel writes of the image pixels in the order given
PixelWrites(call, order) ==
  [i \in 1 .. Len(order) |->
     Pixel(call.dx + order[i][1], call.dy + order[i][2],
           IF IsOn(call.image, order[i][1], order[i][2]) THEN Num(1) ELSE Num(0))]

\* C12: with default clipping drawImage(dx, dy, image) leaves the buffer and the
\* dirty set in exactly the state reached by applying drawPixels([dx+x, dy+y, s])
\* to every image pixel that is not transparent, in any order.
C12_DrawImageAsPixels ==
  [][ (CallOf("drawImage") /\ Config.clippedMethod = "none") =>
        \A order \in Orders(OpaquePixels(lastCall'.image)) :
          drawPixels(Canvas(buffer, dirtyBytes), PixelWrites(lastCall', order))
            = Canvas(buffer', dirtyBytes')
    ]_vars

\* an image with a transparent pixel was drawn across two pages over content
C12_Witness ==
  /\ lastCall.op = "drawImage"
  /\ Config.clippedMethod = "none"
  /\ ncalls = MaxCalls
  /\ Cardinality(OpaquePixels(lastCall.image)) = 3
  /\ lastCall.image.width = 2
  /\ lastCall.dx = 1 /\ lastCall.dy = 7
  /\ DOMAIN dirtyBytes = {0, 1}
  /\ \E c \in DOMAIN dirtyBytes[0] : dirtyBytes[0][c] \notin {0, 128}

(* ------------------------------------------------------------------ *)
(* SpecString: drawString on a display wide enough for three glyphs   *)
(* ------------------------------------------------------------------ *)
StringColumns == 2 * DisplayColumns

WordStrings ==
  { <<"A">>,
    <<"A", "B", " ", "B", "A", "B">>,
    <<"A", "B", " ", "B", "A">>,
    <<"B", "A", "B", " ", "A">>,
    <<"A", " ", " ", "B", "A", "B">> }

InitString ==
  Constructed([NewConfig(TRUE, ExampleColumnOffset) EXCEPT !.displayColumns = StringColumns])

SetCursorWide == \E x \in {0, StringColumns - 2}, y \in {0, 8} : SetCursorCall(x, y)

DrawStringWide ==
  \E str \in WordStrings, fontIM \in FontIMs, wrap \in BOOLEAN : DrawStringCall(str, fontIM, wrap)

\* every pixel of the display set On, for drawString to draw over
FillDisplay == DrawFillRectCall(0, 0, StringColumns, DisplayRows, Num(1))

NextString ==
  \/ SetCursorWide
  \/ DrawStringWide
  \/ FillDisplay

SpecString == InitString /\ [][NextString]_vars

\* the line break the wrap rule prescribes before a word, or none
WordPlaced(call, w) ==
  IF /\ call.wrap
     /\ w.colOffset # 0
     /\ w.colOffset + call.fontIM.width * Len(w.word) > Config.displayColumns
  THEN w.drawnAt = <<0, w.cursory + call.fontIM.height + Config.lineSpacing>>
  ELSE w.drawnAt = <<w.colOffset, w.cursory>>

\* C13: in drawString with wrap enabled, for every word including the first: if
\* the cursor column is nonzero and column + glyphWidth * wordLength exceeds
\* displayColumns, the cursor moves to column 0 and row + glyphHeight +
\* lineSpacing before any character of the word is drawn; otherwise no line
\* break is made before the word.
C13_EveryWordWraps ==
  [][ CallOf("drawString") =>
        \A i \in 1 .. Len(lastCall'.words) : WordPlaced(lastCall', lastCall'.words[i])
    ]_vars

\* What the code does keep of C13: the rule holds for every word but the first,
\* and before the first word no line break is made.
C13_LaterWordsWrap ==
  [][ CallOf("drawString") =>
        \A i \in 1 .. Len(lastCall'.words) :
          IF i = 1
          THEN lastCall'.words[i].drawnAt
                 = <<lastCall'.words[i].colOffset, lastCall'.words[i].cursory>>
          ELSE WordPlaced(lastCall', lastCall'.words[i])
    ]_vars

\* a word after the first was moved to the next line; the first word began at a
\* nonzero column
C13_Witness ==
  /\ lastCall.op = "drawString"
  /\ lastCall.wrap
  /\ lastCall.words[1].colOffset # 0
  /\ \E i \in 2 .. Len(lastCall.words) :
       /\ lastCall.words[i].colOffset # 0
       /\ lastCall.words[i].drawnAt[1] = 0
       /\ lastCall.words[i].drawnAt[2] > lastCall.words[i].cursory

(* ------------------------------------------------------------------ *)
(* The gutter of a glyph                                              *)
(* ------------------------------------------------------------------ *)
\* the state of pixel (x, y) in buf
PixelAt(buf, x, y) == BitOf(buf[x + Config.displayColumns * (y \div 8)], y % 8)

DisplayPixels == (0 .. Config.displayColumns - 1) \X (0 .. Config.displayRows - 1)

\* the step draws the one-character string of an opaque glyph of the font
OneOpaqueGlyph ==
  /\ CallOf("drawString")
  /\ Len(lastCall'.str) = 1
  /\ lastCall'.str[1] \in DOMAIN lastCall'.fontIM.glyphs
  /\ lastCall'.fontIM.glyphs[lastCall'.str[1]].channels \in {1, 3}

\* C14: when drawString draws an opaque glyph of size w x h at cursor (cx, cy),
\* afterwards every pixel of the gutter is Off (rows cy+h .. cy+h+lineSpacing-1
\* at columns cx .. cx+w-1, and columns cx+w .. cx+w+letterSpacing-1), and no
\* pixel outside columns [cx, cx+w+letterSpacing) x rows [cy, cy+h+lineSpacing)
\* is changed.
C14_GutterCleared ==
  [][ OneOpaqueGlyph =>
        LET w == lastCall'.fontIM.width
            h == lastCall'.fontIM.height
            cellX == cursorx .. cursorx + w + Config.letterSpacing - 1
            cellY == cursory .. cursory + h + Config.lineSpacing - 1
            below == (cursorx .. cursorx + w - 1) \X (cursory + h .. cursory + h + Config.lineSpacing - 1)
            right == (cursorx + w .. cursorx + w + Config.letterSpacing - 1) \X cellY
        IN  /\ \A xy \in (below \cup right) \cap DisplayPixels : PixelAt(buffer', xy[1], xy[2]) = 0
            /\ \A xy \in DisplayPixels :
                 (xy[1] \notin cellX \/ xy[2] \notin cellY) =>
                   PixelAt(buffer', xy[1], xy[2]) = PixelAt(buffer, xy[1], xy[2])
    ]_vars

(* ------------------------------------------------------------------ *)
(* SpecFont: fontToImageMap on fonts of every height up to two pages  *)
(* ------------------------------------------------------------------ *)
MaxFontHeight == 10

\* fonts of one character, every byte of its data one of three patterns
FontBytes == {0, 85, 255}
FontsOfSize ==
  { Font(1, h, <<"A">>, <<a, b>>) : h \in 1 .. MaxFontHeight, a \in FontBytes, b \in FontBytes }
  \cup { Font(2, h, <<"A">>, <<a, b, b, a>>) : h \in 1 .. MaxFontHeight, a \in FontBytes, b \in FontBytes }

\* fontToImageMap(font, transparent); it reads and writes nothing of the display
FontToImageMapCall(font, transparent) ==
  /\ ncalls < MaxCalls
  /\ ncalls' = ncalls + 1
  /\ lastCall' = [op |-> "fontToImageMap", font |-> font, transparent |-> transparent,
                  fontIM |-> fontToImageMap(font, transparent),
                  skipped |-> { pb \in (0 .. colPagesOf(font) - 1) \X (0 .. 7) :
                                  fontBitSkipped(font, pb[1], pb[2]) }]
  /\ UNCHANGED <<Config, buffer, dirtyBytes, cursorx, cursory, task, calls, device, nasync,
                 interleaved>>

FontToImageMap == \E font \in FontsOfSize, transparent \in BOOLEAN : FontToImageMapCall(font, transparent)

InitFont == Constructed(NewConfig(TRUE, ExampleColumnOffset))
NextFont == FontToImageMap
SpecFont == InitFont /\ [][NextFont]_vars

\* the second channel byte follows the first: 0xFF for a set pixel, 0x00 otherwise
AlphaFollows(data) ==
  \A i \in 1 .. Len(data) \div 2 :
    data[2 * i] = (IF data[2 * i - 1] # 0 THEN 255 ELSE 0)

\* C15: for every font width >= 1 and height >= 1 fontToImageMap skips, on the
\* first byte-page only, exactly the bits b < 8 - padBits (padBits =
\* (ceil(height/8)*8) mod height), and each glyph image holds exactly height rows
\* of width pixels: data length = width * height * channels, channels 2 when
\* transparent is requested (second byte 0xFF for a set pixel, 0x00 otherwise)
\* and 1 otherwise.
C15_FontGlyphSize ==
  (lastCall.op = "fontToImageMap") =>
    LET font == lastCall.font
        padBits == (((font.height + 7) \div 8) * 8) % font.height
        channels == IF lastCall.transparent THEN 2 ELSE 1
    IN  /\ lastCall.skipped = { pb \in {0} \X (0 .. 7) : pb[2] < 8 - padBits }
        /\ \A ch \in DOMAIN lastCall.fontIM.glyphs :
             LET image == lastCall.fontIM.glyphs[ch]
             IN  /\ image.channels = channels
                 /\ image.width = font.width /\ image.height = font.height
                 /\ Len(image.data) = font.width * font.height * channels
                 /\ lastCall.transparent => AlphaFollows(image.data)

(* ------------------------------------------------------------------ *)
(* A drawing call while updateDisplay is suspended                    *)
(* ------------------------------------------------------------------ *)
\* updateDisplay has run to completion and left the dirty set empty
UpdateCompleted ==
  /\ task.op = "updateDisplay"
  /\ task.pc = "idle"
  /\ task.result = "returned"
  /\ dirtyBytes = NoDirty

\* the page updateDisplay was transferring when the last drawing call was made
DuringPage == lastCall.during.pages[lastCall.during.pi + 1]

\* C16: buffer and dirty set are not safe under interleaving: a drawing call
\* that changes a byte of page p while updateDisplay is suspended in sendCommand
\* or sendData for page p can have its dirty entry deleted without the byte
\* being transferred, so that updateDisplay completes with an empty dirty set
\* and device RAM differing from the buffer (C16_Witness); when no call was made
\* while an async method was suspended, updateDisplay never completes with an
\* empty dirty set and device RAM differing from the buffer.
C16_UnsafeOnlyInterleaved ==
  (UpdateCompleted /\ ~interleaved) => Coherent

\* drawPixels set a bit of page p while updateDisplay was suspended in the
\* transfer of page p; updateDisplay completed, the dirty set is empty and
\* device RAM does not have the byte
C16_Witness ==
  /\ UpdateCompleted
  /\ interleaved
  /\ lastCall.op = "drawPixels"
  /\ lastCall.during.op = "updateDisplay"
  /\ lastCall.during.pc \in {"updateDisplay_sendCommand", "updateDisplay_sendData"}
  /\ DuringPage = lastCall.y \div 8
  /\ LET at == lastCall.x + Config.displayColumns * DuringPage
     IN  /\ BitOf(buffer[at], lastCall.y % 8) = 1
         /\ RamAt(device, DuringPage, lastCall.x + OffsetOf(Config)) # buffer[at]
  /\ ~Coherent

(* ------------------------------------------------------------------ *)
(* SpecPages: updateDisplay on a display of more than ten pages       *)
(* ------------------------------------------------------------------ *)
ManyPages == 11

\* rows of the pages 0, 2 and the last one, whose index has two digits
PageYs == {1, 17, 8 * (ManyPages - 1) + 1}

InitPages ==
  Constructed([NewConfig(TRUE, ExampleColumnOffset) EXCEPT !.displayRows = 8 * ManyPages])

\* drawPixels(pixels) with an array of pixels of one column, one or two of them
\* or one on each of the three pages
PageYLists ==
  { <<y>> : y \in PageYs }
  \cup { <<y0, y1>> : y0 \in PageYs, y1 \in PageYs }
  \cup { <<8 * (ManyPages - 1) + 1, 17, 1>> }

DrawPixelsList(x, ys) ==
  LET pixels == [i \in DOMAIN ys |-> Pixel(x, ys[i], Num(1))]
  IN  Draw([op |-> "drawPixels", pixels |-> pixels], drawPixels(Here2, pixels))

DrawPixelsPages == \E x \in PixelXs, ys \in PageYLists : DrawPixelsList(x, ys)

NextPages ==
  \/ Idle /\ DrawPixelsPages
  \/ UpdateDisplayCall
  \/ UpdateDisplayData
  \/ UpdateDisplayNext

SpecPages == InitPages /\ [][NextPages]_vars

\* the page indices of the address headers sent so far, in the order sent
HeaderPages ==
  LET headers == SelectSeq(calls, LAMBDA c : c.fn = "sendCommand" /\ Len(c.bytes) = 3)
  IN  [i \in DOMAIN headers |-> headers[i].bytes[1] - SET_PAGE_ADDRESS]

\* C17: updateDisplay processes the dirty pages in strictly ascending numeric
\* page-index order, whether or not all page indices are single-digit: the page
\* indices of the address headers it emits are strictly increasing.
C17_PagesAscending ==
  (task.op = "updateDisplay") =>
    \A i \in DOMAIN HeaderPages, j \in DOMAIN HeaderPages :
      i < j => HeaderPages[i] < HeaderPages[j]

\* what the code keeps of C17: the headers go out in the string order of the
\* page keys, which is the numeric order while every index has one digit
C17_PagesInKeyOrder ==
  (task.op = "updateDisplay") =>
    \A i \in DOMAIN HeaderPages, j \in DOMAIN HeaderPages :
      i < j => stringLess(keyString(HeaderPages[i]), keyString(HeaderPages[j]))

====
